---- MODULE Spec2Model ----
(***************************************************************************)
(* Model of mnem.js (src/src/index.ts): keyboard mnemonic navigation.      *)
(*                                                                         *)
(* The module-level state of index.ts (isAltActive, accessMap,             *)
(* pendingGroup), the part of the document it reads and writes (tagged     *)
(* elements, their attribute values, the .mnemo-label spans, the injected  *)
(* style block) and the window key listeners are modelled.  Every action   *)
(* is one task of the browser's event loop: the listener runs to           *)
(* completion, synthesized events it dispatches are handled re-entrantly,  *)
(* and the MutationObserver callback (a microtask) runs before the next    *)
(* task when the task changed the child list of document.body.             *)
(***************************************************************************)
EXTENDS Integers, Sequences, FiniteSets, TLC

(***************************************************************************)
(* Bounds of the model.                                                    *)
(***************************************************************************)
\* label spans that may be in the document at once (live + exiting)
MaxLabels == 6
\* host-page changes (insert, remove, setAttribute) in one behaviour
MaxMutations == 1

(***************************************************************************)
(* The environment: elements of the host page and keys of the keyboard.    *)
(***************************************************************************)
Elements == {"e1", "e2", "e3", "e4"}

\* Elements matched by the attribute selector that have no focus() method
\* (an Element of a foreign namespace): el.focus() raises a TypeError.
Unfocusable == {"e3"}

\* The host page's own scripts: the elements they insert and remove, the
\* elements whose data-accesskey attribute they change, and the values
\* they give it (the initial values are InitAttr's).
Movable == {"e2", "e4"}

Retagged == {"e3"}

AttrValues == {"", "S", "o"}

\* KeyboardEvent.key values the user can produce.
Keys == {"Escape", "Alt", "Enter", "o", "O", "s", "x", "1", "2", "3"}

\* keys whose release is observed
KeyUpKeys == {"Alt", "o"}

\* e.key.length === 1
SingleChar == {"o", "O", "s", "S", "x", "X", "1", "2", "3", "4", "5", "6", "7", "8", "9"}

\* /^[1-9]$/.test(e.key)
IsDigit19(k) == k \in {"1", "2", "3", "4", "5", "6", "7", "8", "9"}

\* parseInt(e.key, 10) for a key matching /^[1-9]$/
ParseInt(k) ==
    CASE k = "1" -> 1 [] k = "2" -> 2 [] k = "3" -> 3
      [] k = "4" -> 4 [] k = "5" -> 5 [] k = "6" -> 6
      [] k = "7" -> 7 [] k = "8" -> 8 [] k = "9" -> 9

\* String.prototype.toLowerCase on the strings of the model
ToLowerCase(s) ==
    CASE s = "O" -> "o"
      [] s = "S" -> "s"
      [] s = "X" -> "x"
      [] s = "Escape" -> "escape"
      [] s = "Alt" -> "alt"
      [] s = "Enter" -> "enter"
      [] OTHER -> s

\* String.prototype.toUpperCase on the keys of the index
ToUpperCase(s) ==
    CASE s = "o" -> "O"
      [] s = "s" -> "S"
      [] s = "x" -> "X"
      [] OTHER -> s

Range(f) == {f[i] : i \in DOMAIN f}

(***************************************************************************)
(* State.                                                                  *)
(***************************************************************************)
VARIABLES
    isAltActive,    \* index.ts:9
    accessMap,      \* index.ts:11  Map in insertion order: <<[key, ref]>>
    heap,           \* the HTMLElement[] arrays referenced by accessMap and
                    \* pendingGroup: ref -> sequence of elements
    pendingGroup,   \* index.ts:13  0 = null, else the ref of an array
    dom,            \* tagged-or-not host elements under body, document order
    attr,           \* element -> <<>> (attribute absent) or <<value>>
    labels,         \* the .mnemo-label spans under body, document order
    styleInjected,  \* #mnemo-style is in document.head
    mutations,      \* host-page changes so far
    ev,             \* the task last run: [type, key]
    preState,       \* session state when that task started
    fx,             \* what that task did, in order: <<[op, el]>>
    bindings        \* the document's bindings (key -> elements) as of the
                    \* last child-list change under body

vars == <<isAltActive, accessMap, heap, pendingGroup, dom, attr, labels,
          styleInjected, mutations, ev, preState, fx, bindings>>

\* null for pendingGroup
NULL == 0

(***************************************************************************)
(* scanDocument (index.ts:29-43).                                          *)
(***************************************************************************)
\* position of key in the map, 0 when the map has no such key
MapIndex(map, key) ==
    IF \E i \in DOMAIN map : map[i].key = key
    THEN CHOOSE i \in DOMAIN map : map[i].key = key
    ELSE 0

\* the smallest array reference not in use
FreshRef(used) == CHOOSE n \in 1..(Cardinality(used) + 1) :
                      /\ n \notin used
                      /\ \A m \in 1..(n - 1) : m \in used

\* document.querySelectorAll(`[${config.attr}]`): elements carrying the
\* attribute, in document order
RECURSIVE QuerySelectorAll(_, _)
QuerySelectorAll(d, a) ==
    IF d = <<>> THEN <<>>
    ELSE IF a[Head(d)] # <<>>
         THEN <<Head(d)>> \o QuerySelectorAll(Tail(d), a)
         ELSE QuerySelectorAll(Tail(d), a)

\* the loop body without toLowerCase() (index.ts:34)
ScanElement_KeepCase(mh, el, a) ==
    LET key == a[el][1]
        i   == MapIndex(mh.map, key)
    IN  IF key = "" THEN mh
        ELSE IF i # 0
        THEN [mh EXCEPT !.heap[mh.map[i].ref] = Append(@, el)]
        ELSE LET r == FreshRef(DOMAIN mh.heap)
             IN  [map  |-> Append(mh.map, [key |-> key, ref |-> r]),
                  heap |-> [x \in DOMAIN mh.heap \cup {r} |->
                               IF x = r THEN <<el>> ELSE mh.heap[x]]]

\* the body of elements.forEach (index.ts:33-42) on a state [map, heap]
ScanElement(mh, el, a) ==
    LET key == ToLowerCase(a[el][1])
        i   == MapIndex(mh.map, key)
    IN  IF key = "" THEN mh
        ELSE IF i # 0
        THEN [mh EXCEPT !.heap[mh.map[i].ref] = Append(@, el)]
        ELSE LET r == FreshRef(DOMAIN mh.heap)
             IN  [map  |-> Append(mh.map, [key |-> key, ref |-> r]),
                  heap |-> [x \in DOMAIN mh.heap \cup {r} |->
                               IF x = r THEN <<el>> ELSE mh.heap[x]]]

RECURSIVE ScanElements(_, _, _)
ScanElements(mh, els, a) ==
    IF els = <<>> THEN mh
    ELSE ScanElements(ScanElement(mh, Head(els), a), Tail(els), a)

\* arrays still referenced after the scan: garbage is dropped
Collect(mh, group) ==
    LET live == {mh.map[i].ref : i \in DOMAIN mh.map} \cup ({group} \ {NULL})
    IN  [map |-> mh.map, heap |-> [x \in live |-> mh.heap[x]]]

\* scanDocument without accessMap.clear(): the arrays of the map, the one
\* pendingGroup refers to among them, are pushed to again
ScanDocument_NoClear(h, group, d, a) ==
    Collect(ScanElements([map |-> accessMap, heap |-> h],
                         QuerySelectorAll(d, a), a), group)

\* scanDocument: accessMap.clear() forgets the old arrays (the one
\* pendingGroup refers to stays alive and untouched), then the map is
\* filled with new arrays.
ScanDocument(h, group, d, a) ==
    LET kept == [x \in (DOMAIN h) \cap {group} |-> h[x]]
    IN  Collect(ScanElements([map |-> <<>>, heap |-> kept],
                             QuerySelectorAll(d, a), a), group)

\* accessMap.get(key): the array's elements, <<>> for undefined
MapGet(map, h, key) ==
    IF MapIndex(map, key) = 0 THEN <<>> ELSE h[map[MapIndex(map, key)].ref]

(***************************************************************************)
(* The listeners work on a record st of what a task may change:            *)
(*   isAltActive, pendingGroup, labels, styleInjected,                     *)
(*   fx       the effects so far,                                          *)
(*   thrown   an exception is propagating (the rest of the task is         *)
(*            skipped),                                                    *)
(*   appended a child was added under document.body (the observer will     *)
(*            call scanDocument after the task).                           *)
(* accessMap, heap and dom are read as they are when the task starts: no   *)
(* listener writes them.                                                   *)
(***************************************************************************)
Fx(op, el) == [op |-> op, el |-> el]

Log(st, op, el) == [st EXCEPT !.fx = Append(@, Fx(op, el))]

\* ensureMnemoStyles (index.ts:175-207)
EnsureMnemoStyles(st) == [st EXCEPT !.styleInjected = TRUE]

\* A label's fadeOut is 0 while it has no fade-out class; n > 0 when it has
\* the class and its exit animation is the n-th oldest still running (the
\* labels that got the class in the same task share n: their animations
\* have the same duration and end in the same frame).
Exiting(l) == l.fadeOut > 0

Max(S) == CHOOSE n \in S : \A m \in S : m <= n

\* markMnemonics without the fade-out pass of index.ts:126-131
FadeOutAll_None(ls) == ls

\* index.ts:127-130: every .mnemo-label in the document gets fade-out and an
\* animationend listener; for a label that has the class already, the
\* animation goes on
FadeOutAll(ls) ==
    LET next == Max({0} \cup {ls[i].fadeOut : i \in DOMAIN ls}) + 1
    IN  [i \in DOMAIN ls |->
            IF Exiting(ls[i]) THEN ls[i] ELSE [ls[i] EXCEPT !.fadeOut = next]]

\* the loop body without the activeKey test of index.ts:144
LabelsOfEntry_NoFilter(key, els, activeKey) ==
    [i \in 1..Len(els) |->
        [text    |-> IF Len(els) > 1
                     THEN ToUpperCase(key) \o ToString(i)
                     ELSE ToUpperCase(key),
         el      |-> els[i],
         fadeOut |-> 0]]

\* the loop body numbering from the array index i instead of i + 1
\* (index.ts:140)
LabelsOfEntry_ZeroBased(key, els, activeKey) ==
    IF activeKey # "" /\ key # activeKey THEN <<>>
    ELSE [i \in 1..Len(els) |->
            [text    |-> IF Len(els) > 1
                         THEN ToUpperCase(key) \o ToString(i - 1)
                         ELSE ToUpperCase(key),
             el      |-> els[i],
             fadeOut |-> 0]]

\* the loop body numbering the spans only in a render for one key
LabelsOfEntry_PlainWhenAll(key, els, activeKey) ==
    IF activeKey # "" /\ key # activeKey THEN <<>>
    ELSE [i \in 1..Len(els) |->
            [text    |-> IF Len(els) > 1 /\ activeKey # ""
                         THEN ToUpperCase(key) \o ToString(i)
                         ELSE ToUpperCase(key),
             el      |-> els[i],
             fadeOut |-> 0]]

\* index.ts:135-164 for one entry of the map: one span per element, unless
\* activeKey is given and is another key
LabelsOfEntry(key, els, activeKey) ==
    IF activeKey # "" /\ key # activeKey THEN <<>>
    ELSE [i \in 1..Len(els) |->
            [text    |-> IF Len(els) > 1
                         THEN ToUpperCase(key) \o ToString(i)
                         ELSE ToUpperCase(key),
             el      |-> els[i],
             fadeOut |-> 0]]

\* accessMap.forEach (index.ts:134-165), in the map's insertion order
RECURSIVE NewLabels(_, _, _)
NewLabels(map, h, activeKey) ==
    IF map = <<>> THEN <<>>
    ELSE LabelsOfEntry(Head(map).key, h[Head(map).ref], activeKey)
         \o NewLabels(Tail(map), h, activeKey)

\* markMnemonics(show, activeKey) (index.ts:123-166); activeKey "" stands
\* for the omitted argument (both are falsy at index.ts:144)
MarkMnemonics(st, show, activeKey) ==
    LET s1  == EnsureMnemoStyles(st)
        s2  == [s1 EXCEPT !.labels = FadeOutAll(@)]
        new == NewLabels(accessMap, heap, activeKey)
    IN  IF ~show THEN s2
        ELSE [s2 EXCEPT !.labels = @ \o new,
                        !.appended = @ \/ new # <<>>]

\* resetMnemonics that forgets to drop the pending group
ResetMnemonics_KeepGroup(st) ==
    MarkMnemonics([Log(st, "reset", "-") EXCEPT !.isAltActive = FALSE],
                  FALSE, "")

\* resetMnemonics (index.ts:168-173); the call is recorded in fx
ResetMnemonics(st) ==
    MarkMnemonics([Log(st, "reset", "-") EXCEPT !.isAltActive = FALSE,
                                                !.pendingGroup = NULL],
                  FALSE, "")

RECURSIVE KeyDownHandler(_, _, _)

\* a keyup listener that resets on every key, not on Alt only
KeyUpHandler_AnyKey(st, key) == ResetMnemonics(st)

\* the keyup listener (index.ts:99-103)
KeyUpHandler(st, key) ==
    IF key = "Alt" THEN ResetMnemonics(st) ELSE st

\* el.dispatchEvent(new KeyboardEvent(type, {key: 'Enter', bubbles: true})):
\* the event reaches the window listeners, synchronously, when el is in
\* the document
DispatchEnter(st, type, el) ==
    LET s1 == Log(st, type, el)
    IN  IF el \notin Range(dom) THEN s1
        ELSE IF type = "keydown" THEN KeyDownHandler(s1, "Enter", TRUE)
        ELSE KeyUpHandler(s1, "Enter")

\* triggerElement dispatching the key-up before the key-down
TriggerElement_KeyUpFirst(st, el) ==
    IF el \in Unfocusable
    THEN [Log(st, "throw", el) EXCEPT !.thrown = TRUE]
    ELSE DispatchEnter(DispatchEnter(Log(st, "focus", el), "keyup", el),
                       "keydown", el)

\* triggerElement (index.ts:106-121)
TriggerElement(st, el) ==
    IF el \in Unfocusable
    THEN [Log(st, "throw", el) EXCEPT !.thrown = TRUE]
    ELSE DispatchEnter(DispatchEnter(Log(st, "focus", el), "keydown", el),
                       "keyup", el)

\* e.preventDefault() on the event of the task (nested: on a synthesized
\* Enter event)
PreventDefault(st, nested) ==
    Log(st, IF nested THEN "preventDefaultNested" ELSE "preventDefault", "-")

\* index.ts:70-78
DigitBranch(st, key) ==
    LET group == heap[st.pendingGroup]
        index == ParseInt(key) - 1
        s1    == IF index + 1 \in DOMAIN group
                 THEN TriggerElement(st, group[index + 1])
                 ELSE st
    IN  IF s1.thrown THEN s1 ELSE ResetMnemonics(s1)

\* the letter branch with preventDefault moved above the early return of
\* index.ts:84
LetterBranch_PreventFirst(st, k, nested) ==
    LET key      == ToLowerCase(k)
        elements == MapGet(accessMap, heap, key)
        s1       == PreventDefault(st, nested)
        s2       == TriggerElement(s1, elements[1])
    IN  IF elements = <<>> THEN s1
        ELSE IF Len(elements) = 1
        THEN IF s2.thrown THEN s2 ELSE ResetMnemonics(s2)
        ELSE MarkMnemonics(
                 [s1 EXCEPT !.pendingGroup =
                                accessMap[MapIndex(accessMap, key)].ref],
                 TRUE, key)

\* the letter branch without toLowerCase() on the pressed key (index.ts:82)
LetterBranch_CaseSensitive(st, k, nested) ==
    LET key      == k
        elements == MapGet(accessMap, heap, key)
        s1       == PreventDefault(st, nested)
        s2       == TriggerElement(s1, elements[1])
    IN  IF elements = <<>> THEN st
        ELSE IF Len(elements) = 1
        THEN IF s2.thrown THEN s2 ELSE ResetMnemonics(s2)
        ELSE MarkMnemonics(
                 [s1 EXCEPT !.pendingGroup =
                                accessMap[MapIndex(accessMap, key)].ref],
                 TRUE, key)

\* index.ts:81-96
LetterBranch(st, k, nested) ==
    LET key      == ToLowerCase(k)
        elements == MapGet(accessMap, heap, key)
        s1       == PreventDefault(st, nested)
        s2       == TriggerElement(s1, elements[1])
    IN  IF elements = <<>> THEN st
        ELSE IF Len(elements) = 1
        THEN IF s2.thrown THEN s2 ELSE ResetMnemonics(s2)
        ELSE MarkMnemonics(
                 [s1 EXCEPT !.pendingGroup =
                                accessMap[MapIndex(accessMap, key)].ref],
                 TRUE, key)

\* the Alt branch without the isAltActive test of index.ts:62
AltBranch_AlwaysRender(st, nested) ==
    MarkMnemonics([PreventDefault(st, nested) EXCEPT !.isAltActive = TRUE],
                  TRUE, "")

\* index.ts:60-68
AltBranch(st, nested) ==
    LET s1 == PreventDefault(st, nested)
    IN  IF ~s1.isAltActive
        THEN MarkMnemonics([s1 EXCEPT !.isAltActive = TRUE], TRUE, "")
        ELSE s1

\* the keydown listener (index.ts:52-97)
KeyDownHandler(st, key, nested) ==
    IF key = "Escape" THEN ResetMnemonics(st)
    ELSE IF key = "Alt" THEN AltBranch(st, nested)
    ELSE IF st.pendingGroup # NULL /\ IsDigit19(key)
    THEN DigitBranch(st, key)
    ELSE IF st.isAltActive /\ key \in SingleChar
    THEN LetterBranch(st, key, nested)
    ELSE st

(***************************************************************************)
(* Tasks.                                                                  *)
(***************************************************************************)
\* What the document binds: each lower-cased non-empty attribute value of an
\* element in the document, with the elements carrying it in document order.
KeyOf(e, a) == IF a[e] = <<>> THEN "" ELSE ToLowerCase(a[e][1])

DocBindings(d, a) ==
    [k \in {KeyOf(e, a) : e \in Range(d)} \ {""} |->
        SelectSeq(d, LAMBDA e : KeyOf(e, a) = k)]

SessionState ==
    IF pendingGroup # NULL THEN "Disambiguating"
    ELSE IF isAltActive THEN "Armed"
    ELSE "Idle"

Start == [isAltActive   |-> isAltActive,
          pendingGroup  |-> pendingGroup,
          labels        |-> labels,
          styleInjected |-> styleInjected,
          fx            |-> <<>>,
          thrown        |-> FALSE,
          appended      |-> FALSE]

\* an observer that is never notified (observe() without subtree/childList)
Observe_Never(childListChanged, group, d, a) ==
    Collect([map |-> accessMap, heap |-> heap], group)

\* The MutationObserver set up at index.ts:45-49 (childList, subtree) calls
\* scanDocument after a task that added or removed a node under body.
Observe(childListChanged, group, d, a) ==
    IF childListChanged
    THEN ScanDocument(heap, group, d, a)
    ELSE Collect([map |-> accessMap, heap |-> heap], group)

\* what a listener task leaves behind
Commit(st, type, key) ==
    /\ Len(st.labels) <= MaxLabels
    /\ isAltActive' = st.isAltActive
    /\ pendingGroup' = st.pendingGroup
    /\ labels' = st.labels
    /\ styleInjected' = st.styleInjected
    /\ LET mh == Observe(st.appended, st.pendingGroup, dom, attr)
       IN  accessMap' = mh.map /\ heap' = mh.heap
    /\ ev' = [type |-> type, key |-> key]
    /\ preState' = SessionState
    /\ fx' = st.fx
    /\ bindings' = IF st.appended THEN DocBindings(dom, attr) ELSE bindings
    /\ UNCHANGED <<dom, attr, mutations>>

KeyDown(k) == Commit(KeyDownHandler(Start, k, FALSE), "keydown", k)

KeyUp(k) == Commit(KeyUpHandler(Start, k), "keyup", k)

RemoveAt(s, i) == SubSeq(s, 1, i - 1) \o SubSeq(s, i + 1, Len(s))

InsertAt(s, i, x) == SubSeq(s, 1, i - 1) \o <<x>> \o SubSeq(s, i, Len(s))

\* an animationend listener that does not remove its label
Ended_NoRemove(ls) == ls

\* the labels left when the oldest exit animations have ended
Ended(ls) ==
    LET left == SelectSeq(ls, LAMBDA l : l.fadeOut # 1)
    IN  [i \in DOMAIN left |->
            IF Exiting(left[i]) THEN [left[i] EXCEPT !.fadeOut = @ - 1]
            ELSE left[i]]

\* the {once: true} animationend listener of index.ts:129: n.remove(),
\* a child-list change under body
AnimationEnd ==
    /\ \E i \in DOMAIN labels : labels[i].fadeOut = 1
    /\ labels' = Ended(labels)
    /\ LET mh == Observe(TRUE, pendingGroup, dom, attr)
       IN  accessMap' = mh.map /\ heap' = mh.heap
    /\ ev' = [type |-> "animationend", key |-> "-"]
    /\ preState' = SessionState
    /\ fx' = <<>>
    /\ bindings' = DocBindings(dom, attr)
    /\ UNCHANGED <<isAltActive, pendingGroup, dom, attr, styleInjected,
                   mutations>>

\* what a host-page task leaves behind
HostCommit(d, a, childListChanged) ==
    /\ mutations < MaxMutations
    /\ mutations' = mutations + 1
    /\ dom' = d
    /\ attr' = a
    /\ LET mh == Observe(childListChanged, pendingGroup, d, a)
       IN  accessMap' = mh.map /\ heap' = mh.heap
    /\ ev' = [type |-> "mutation", key |-> "-"]
    /\ preState' = SessionState
    /\ fx' = <<>>
    /\ bindings' = IF childListChanged THEN DocBindings(d, a) ELSE bindings
    /\ UNCHANGED <<isAltActive, pendingGroup, labels, styleInjected>>

\* the host page inserts element e under body at position pos
HostInsert(e, pos) ==
    /\ e \notin Range(dom)
    /\ pos \in 1..(Len(dom) + 1)
    /\ HostCommit(InsertAt(dom, pos, e), attr, TRUE)

\* the host page removes element e from the document
HostRemove(e) ==
    /\ \E i \in DOMAIN dom : dom[i] = e /\ HostCommit(RemoveAt(dom, i), attr, TRUE)

\* the host page sets (<<v>>) or removes (<<>>) the attribute of e: no
\* child-list change, so the observer is not notified
HostSetAttribute(e, v) ==
    /\ attr[e] # v
    /\ HostCommit(dom, [attr EXCEPT ![e] = v], FALSE)

\* the state after initMnemonics() (index.ts:15-27) on the initial page;
\* e4 is an element the host page has created and not yet inserted
InitDom == <<"e1", "e2", "e3">>

InitAttr == [e \in Elements |->
                CASE e = "e1" -> <<"o">>
                  [] e = "e2" -> <<"O">>
                  [] e = "e3" -> <<"s">>
                  [] OTHER -> <<"o">>]

Init ==
    /\ isAltActive = FALSE
    /\ pendingGroup = NULL
    /\ dom = InitDom
    /\ attr = InitAttr
    /\ LET mh == ScanElements([map |-> <<>>, heap |-> <<>>],
                              QuerySelectorAll(InitDom, InitAttr), InitAttr)
       IN  accessMap = mh.map /\ heap = mh.heap
    /\ labels = <<>>
    /\ styleInjected = FALSE
    /\ mutations = 0
    /\ ev = [type |-> "init", key |-> "-"]
    /\ preState = "Idle"
    /\ fx = <<>>
    /\ bindings = DocBindings(InitDom, InitAttr)

Next ==
    \/ \E k \in Keys : KeyDown(k)
    \/ \E k \in KeyUpKeys : KeyUp(k)
    \/ AnimationEnd
    \/ \E e \in Movable, pos \in 1..Cardinality(Elements) : HostInsert(e, pos)
    \/ \E e \in Movable : HostRemove(e)
    \/ \E e \in Retagged, v \in {<<>>} \cup {<<x>> : x \in AttrValues} :
           HostSetAttribute(e, v)

Spec == Init /\ [][Next]_vars

\* what AnimationEnd does to the labels; no other action removes a label
ExitEnds ==
    /\ \E i \in DOMAIN labels : labels[i].fadeOut = 1
    /\ labels' = Ended(labels)

\* A running exit animation (0.12s, index.ts:203) ends and the browser
\* fires animationend at the label: the listener of index.ts:129 is always
\* run in the end. The steps of Next that satisfy ExitEnds are those of
\* AnimationEnd.
FairSpec == Spec /\ WF_labels(ExitEnds)

TypeOK ==
    /\ isAltActive \in BOOLEAN
    /\ pendingGroup \in {NULL} \cup DOMAIN heap
    /\ \A i \in DOMAIN accessMap : accessMap[i].ref \in DOMAIN heap
    /\ Len(labels) <= MaxLabels
    /\ (pendingGroup # NULL) => isAltActive

(***************************************************************************)
(* Vocabulary of the properties.                                           *)
(***************************************************************************)
\* the live (non-exiting) hints
Live(ls) == SelectSeq(ls, LAMBDA l : ~Exiting(l))

\* the calls of triggerElement in a task: each starts with focus or throw
TriggerCalls(f) == SelectSeq(f, LAMBDA x : x.op \in {"focus", "throw"})

\* what a task does when it triggers el exactly once and nothing else
TriggerOf(el) == <<Fx("focus", el), Fx("keydown", el), Fx("keyup", el)>>

\* the task's effects on elements (calls to preventDefault left out)
ElementFx(f) == SelectSeq(f, LAMBDA x : x.el # "-")

IsKeyDown(e) == e.type = "keydown"

\* cancel-key (Escape pressed) or modifier-up (Alt released)
IsCancel(e) ==
    \/ e.type = "keydown" /\ e.key = "Escape"
    \/ e.type = "keyup" /\ e.key = "Alt"

\* C1: from Armed or Disambiguating, Escape or the release of Alt moves the
\* session to Idle, drops the pending group, leaves no live hint and
\* triggers no element.
C1_CancelReturnsToIdle ==
    (IsCancel(ev) /\ preState # "Idle") =>
        /\ SessionState = "Idle"
        /\ ~isAltActive
        /\ pendingGroup = NULL
        /\ Live(labels) = <<>>
        /\ ElementFx(fx) = <<>>

\* Scenario D: Alt released while Disambiguating; the numbered hints are
\* still in the document, exiting.
C1_Witness ==
    /\ ev = [type |-> "keyup", key |-> "Alt"]
    /\ preState = "Disambiguating"
    /\ SessionState = "Idle"
    /\ \E i \in DOMAIN labels : labels[i].text = "O2" /\ Exiting(labels[i])

\* accessMap.get of the lower-cased key, in the current state
Bound(k) == MapGet(accessMap, heap, ToLowerCase(k))

\* the texts of the live hints, in document order
LiveTexts(ls) == [i \in DOMAIN Live(ls) |-> Live(ls)[i].text]

\* the elements the live hints stand for, in document order
LiveEls(ls) == [i \in DOMAIN Live(ls) |-> Live(ls)[i].el]

\* C2: in Armed, a single-character key with exactly one bound element
\* triggers that element exactly once and no other, and the session is then
\* Idle with no live hint.
C2_SingleBoundTriggers ==
    [][(/\ SessionState = "Armed"
        /\ IsKeyDown(ev')
        /\ ev'.key \in SingleChar
        /\ Len(Bound(ev'.key)) = 1)
       => /\ ElementFx(fx') = TriggerOf(Bound(ev'.key)[1])
          /\ SessionState' = "Idle"
          /\ Live(labels') = <<>>]_vars

\* C3: in Armed, a key with two or more bound elements triggers nothing,
\* makes the index entry of that moment the pending group, and leaves as
\* live hints exactly KEY1..KEYn, one per group member.
C3_DuplicateStartsDisambiguation ==
    [][(/\ SessionState = "Armed"
        /\ IsKeyDown(ev')
        /\ ev'.key \in SingleChar
        /\ Len(Bound(ev'.key)) >= 2)
       => LET els == Bound(ev'.key)
              K   == ToUpperCase(ToLowerCase(ev'.key))
          IN  /\ ElementFx(fx') = <<>>
              /\ SessionState' = "Disambiguating"
              /\ heap'[pendingGroup'] = els
              /\ LiveTexts(labels') = [i \in 1..Len(els) |-> K \o ToString(i)]
              /\ LiveEls(labels') = els]_vars

\* "o" pressed while Armed with e1 and e2 bound to it and e3 to "s".
C3_Witness ==
    /\ ev = [type |-> "keydown", key |-> "o"]
    /\ preState = "Armed"
    /\ SessionState = "Disambiguating"
    /\ heap[pendingGroup] = <<"e1", "e2">>
    /\ MapGet(accessMap, heap, "s") = <<"e3">>
    /\ LiveTexts(labels) = <<"O1", "O2">>

\* C4: in Disambiguating, digit d triggers group[d-1] exactly once when it
\* exists and nothing otherwise; either way the session is then Idle with
\* no live hint and no pending group.
C4_DigitResolves ==
    [][(/\ pendingGroup # NULL
        /\ IsKeyDown(ev')
        /\ IsDigit19(ev'.key))
       => LET g == heap[pendingGroup]
              d == ParseInt(ev'.key)
          IN  /\ ElementFx(fx') = IF d <= Len(g) THEN TriggerOf(g[d]) ELSE <<>>
              /\ SessionState' = "Idle"
              /\ pendingGroup' = NULL
              /\ Live(labels') = <<>>]_vars

\* C5: while a group is pending, a tree mutation or the removal of an
\* exited hint, with the rescan it causes, leaves the group's members and
\* order as they are; the group is the index entry read when the letter was
\* pressed, also after the rescan caused by the numbered hints' insertion;
\* and digit d resolves to the d-th member of that group.
C5_GroupFrozen ==
    [][/\ (pendingGroup # NULL /\ ev'.type \in {"mutation", "animationend"})
          => /\ pendingGroup' # NULL
             /\ heap'[pendingGroup'] = heap[pendingGroup]
       /\ (pendingGroup = NULL /\ pendingGroup' # NULL)
          => /\ IsKeyDown(ev')
             /\ heap'[pendingGroup'] = Bound(ev'.key)
       /\ (/\ pendingGroup # NULL
           /\ IsKeyDown(ev')
           /\ IsDigit19(ev'.key)
           /\ ParseInt(ev'.key) <= Len(heap[pendingGroup]))
          => /\ Len(TriggerCalls(fx')) = 1
             /\ TriggerCalls(fx')[1].el = heap[pendingGroup][ParseInt(ev'.key)]
      ]_vars

\* A mutation while Disambiguating "o" has changed the index entry of "o";
\* the pending group is still <<e1, e2>>.
C5_Witness ==
    /\ ev.type = "mutation"
    /\ preState = "Disambiguating"
    /\ pendingGroup # NULL
    /\ heap[pendingGroup] = <<"e1", "e2">>
    /\ Bound("o") # <<"e1", "e2">>
    /\ LiveTexts(labels) = <<"O1", "O2">>

\* the elements the document bound to key k at its last child-list change
BoundInDoc(k) ==
    IF ToLowerCase(k) \in DOMAIN bindings THEN bindings[ToLowerCase(k)] ELSE <<>>

\* C6: a letter key pressed while Armed resolves against the bindings the
\* document had after its last structural mutation, in count and identity:
\* none bound is a no-op, one bound is triggered, several become the group.
C6_LiveIndexResolution ==
    [][(/\ SessionState = "Armed"
        /\ IsKeyDown(ev')
        /\ ev'.key \in SingleChar)
       => LET els == BoundInDoc(ev'.key)
          IN  CASE Len(els) = 0 ->
                     /\ fx' = <<>>
                     /\ SessionState' = "Armed"
                [] Len(els) = 1 ->
                     /\ Len(TriggerCalls(fx')) = 1
                     /\ TriggerCalls(fx')[1].el = els[1]
                     /\ pendingGroup' = NULL
                [] OTHER ->
                     /\ TriggerCalls(fx') = <<>>
                     /\ pendingGroup' # NULL
                     /\ heap'[pendingGroup'] = els]_vars

\* The hints O1 and O2 of the arming are still in the document, so "o" had
\* two elements then; e2 was removed since, and "o" now triggers e1 alone.
C6_Witness ==
    /\ ev = [type |-> "keydown", key |-> "o"]
    /\ preState = "Armed"
    /\ ElementFx(fx) = TriggerOf("e1")
    /\ "e2" \notin Range(dom)
    /\ \E i \in DOMAIN labels : labels[i].text = "O2" /\ labels[i].el = "e2"

Prevented(f) == Fx("preventDefault", "-") \in Range(f)

\* C7: a key the state machine consumes has its default handling
\* prevented: a letter key that triggers an element or starts
\* disambiguation, and a digit key handled in Disambiguating.
C7_ConsumedKeysPreventDefault ==
    (/\ IsKeyDown(ev)
     /\ \/ /\ preState = "Armed"
           /\ ev.key \in SingleChar
           /\ TriggerCalls(fx) # <<>> \/ SessionState = "Disambiguating"
        \/ /\ preState = "Disambiguating"
           /\ IsDigit19(ev.key))
    => Prevented(fx)

\* C8: in Armed, a letter key with no bound element changes nothing: the
\* session stays Armed with no group, the hints are as they were, nothing
\* is triggered and the default handling is not prevented.
C8_UnboundLetterNoOp ==
    [][(/\ SessionState = "Armed"
        /\ IsKeyDown(ev')
        /\ ev'.key \in SingleChar
        /\ Bound(ev'.key) = <<>>)
       => /\ SessionState' = "Armed"
          /\ pendingGroup' = NULL
          /\ labels' = labels
          /\ fx' = <<>>]_vars

\* "x" pressed while Armed with hints shown.
C8_Witness ==
    /\ ev = [type |-> "keydown", key |-> "x"]
    /\ preState = "Armed"
    /\ SessionState = "Armed"
    /\ LiveTexts(labels) = <<"O1", "O2", "S">>
    /\ fx = <<>>

\* C9: Alt pressed again while Armed or Disambiguating changes neither the
\* session state nor the pending group nor the hints.
C9_RepeatedAltSuppressed ==
    [][(/\ SessionState # "Idle"
        /\ ev' = [type |-> "keydown", key |-> "Alt"])
       => /\ SessionState' = SessionState
          /\ (pendingGroup # NULL =>
                 /\ pendingGroup' # NULL
                 /\ heap'[pendingGroup'] = heap[pendingGroup])
          /\ labels' = labels]_vars

\* Alt auto-repeats while the numbered hints of "o" are shown.
C9_Witness ==
    /\ ev = [type |-> "keydown", key |-> "Alt"]
    /\ preState = "Disambiguating"
    /\ SessionState = "Disambiguating"
    /\ LiveTexts(labels) = <<"O1", "O2">>

\* C10: when focusing the resolved element raises, the failure is
\* swallowed and the overlay state is cleared all the same: the session is
\* Idle with no pending group and no live hint.
C10_TriggerFailureStillClears ==
    (\E i \in DOMAIN fx : fx[i].op = "throw")
    => /\ SessionState = "Idle"
       /\ pendingGroup = NULL
       /\ Live(labels) = <<>>

\* no element carries two live hints
NoElementTwice(ls) ==
    \A i, j \in DOMAIN ls : ls[i].el = ls[j].el => i = j

\* the step renders the pending group again from an index entry with the
\* same elements: two renders in a row over identical index content
RendersGroupAgain ==
    /\ IsKeyDown(ev')
    /\ pendingGroup # NULL
    /\ pendingGroup' # NULL
    /\ Len(labels') > Len(labels)
    /\ heap'[pendingGroup'] = heap[pendingGroup]

\* C11: a render marks every hint that was in the document before it
\* (live or already exiting) as exiting and then adds its batch, so the live
\* hints are exactly the batch just added; rendering again over identical
\* index content leaves the same live hints (same number, texts, elements)
\* as rendering once; and over any sequence of renders and clears no
\* element ever carries two live hints.
C11_IdempotentRender ==
    [][ /\ NoElementTwice(Live(labels'))
        /\ Len(labels') > Len(labels) =>
              /\ \A i \in 1..Len(labels) : Exiting(labels'[i])
              /\ Live(labels')
                   = SubSeq(labels', Len(labels) + 1, Len(labels'))
        /\ RendersGroupAgain =>
              /\ Len(Live(labels')) = Len(Live(labels))
              /\ LiveTexts(labels') = LiveTexts(labels)
              /\ LiveEls(labels') = LiveEls(labels)
              /\ Len(labels') = Len(labels) + Len(Live(labels)) ]_vars

\* the group of "o" was rendered, its predecessors' exit ended, and the
\* same group was rendered again: the first render's O1, O2 are exiting,
\* the second render's O1, O2 are the only live hints
C11_Witness ==
    /\ IsKeyDown(ev) /\ ev.key = "o"
    /\ preState = "Disambiguating"
    /\ pendingGroup # NULL
    /\ Len(labels) = 4
    /\ Exiting(labels[1]) /\ labels[1].text = "O1"
    /\ Exiting(labels[2]) /\ labels[2].text = "O2"
    /\ LiveTexts(labels) = <<"O1", "O2">>

\* the hint text of the i-th of n elements bound to key k
HintText(k, n, i) ==
    IF n = 1 THEN ToUpperCase(k) ELSE ToUpperCase(k) \o ToString(i)

\* one (text, element) pair per binding of the index
IndexHints ==
    UNION { { [text |-> HintText(accessMap[m].key,
                                 Len(heap[accessMap[m].ref]), i),
               el   |-> heap[accessMap[m].ref][i]]
              : i \in DOMAIN heap[accessMap[m].ref] }
            : m \in DOMAIN accessMap }

\* the (text, element) pairs of the live hints
LiveHints(ls) ==
    { [text |-> Live(ls)[i].text, el |-> Live(ls)[i].el]
        : i \in DOMAIN Live(ls) }

\* C12: the all-keys render (Alt pressed in Idle) creates exactly one live
\* hint per binding of the index: as many live hints as bindings, each
\* element with the text KEY when its key has exactly one element and
\* KEY followed by the element's 1-based position otherwise.
C12_AllKeysRender ==
    [][ (SessionState = "Idle" /\ IsKeyDown(ev') /\ ev'.key = "Alt") =>
            /\ Len(Live(labels')) = Cardinality(IndexHints)
            /\ LiveHints(labels') = IndexHints ]_vars

\* after e4 joined the document, arming shows O1, O2, O3 for the three
\* elements of "o" and the bare S for the only element of "s"
C12_Witness ==
    /\ IsKeyDown(ev) /\ ev.key = "Alt"
    /\ preState = "Idle"
    /\ SessionState = "Armed"
    /\ Len(Live(labels)) = 4
    /\ "O3" \in Range(LiveTexts(labels))
    /\ "S" \in Range(LiveTexts(labels))

\* every key of the index maps to a non-empty sequence
NonEmptyKeys(map, h) ==
    \A m \in DOMAIN map : map[m].key # "" /\ h[map[m].ref] # <<>>

\* the index against the attribute values a: each key is the lower-cased
\* attribute value of every element in its sequence, and no element with a
\* missing or empty attribute value is in any sequence
IndexAgrees(map, h, a) ==
    /\ NonEmptyKeys(map, h)
    /\ \A m \in DOMAIN map : \A i \in DOMAIN h[map[m].ref] :
           LET e == h[map[m].ref][i]
           IN  a[e] # <<>> /\ ToLowerCase(a[e][1]) = map[m].key
    /\ \A e \in Elements :
           (a[e] = <<>> \/ a[e] = <<"">>) =>
               \A m \in DOMAIN map : e \notin Range(h[map[m].ref])

\* the step changed the child list under body, so scanDocument ran
Scanned == dom' # dom \/ Len(labels') # Len(labels)

\* C13: after the initial scan and after every scan that follows a tree
\* mutation, every key of the index maps to a non-empty sequence, is the
\* lower-cased attribute value of each element of its sequence, and no
\* element whose attribute is missing or empty is under any key; between
\* scans every key keeps a non-empty sequence.
C13_IndexInvariant ==
    /\ IndexAgrees(accessMap, heap, attr)
    /\ [][ /\ NonEmptyKeys(accessMap', heap')
           /\ Scanned => IndexAgrees(accessMap', heap', attr') ]_vars

\* e3's attribute was emptied and a later render made the observer scan:
\* e3 is in the document and under no key, e2 (tagged "O") is under "o"
C13_Witness ==
    /\ attr["e3"] = <<"">>
    /\ "e3" \in Range(dom)
    /\ IsKeyDown(ev) /\ ev.key = "Alt" /\ preState = "Idle"
    /\ Len(accessMap) = 1
    /\ accessMap[1].key = "o"
    /\ attr["e2"] = <<"O">>
    /\ heap[accessMap[1].ref] = <<"e1", "e2">>

\* the letter keys of the model, each with the same letter in the other case
CasedLetters == {"o", "O", "s", "S", "x", "X"}

OtherCase(k) ==
    CASE k = "o" -> "O" [] k = "O" -> "o"
      [] k = "s" -> "S" [] k = "S" -> "s"
      [] k = "x" -> "X" [] k = "X" -> "x"

\* the elements a key task resolved: the new group, else the trigger calls
Resolved(group, h, f) ==
    IF group # NULL THEN h[group]
    ELSE [i \in DOMAIN TriggerCalls(f) |-> TriggerCalls(f)[i].el]

\* C14: a letter pressed while Armed resolves the elements the document
\* binds to that letter whatever the case of their attribute value, and
\* pressing the letter in the other case would have ended in the same
\* session state, hints, effects and triggered element.
C14_CaseInsensitive ==
    [][ (SessionState = "Armed" /\ IsKeyDown(ev')
                                /\ ev'.key \in CasedLetters) =>
            LET r == KeyDownHandler(Start, OtherCase(ev'.key), FALSE)
            IN  /\ isAltActive' = r.isAltActive
                /\ pendingGroup' = r.pendingGroup
                /\ labels' = r.labels
                /\ fx' = r.fx
                /\ Resolved(pendingGroup', heap', fx') = BoundInDoc(ev'.key)
      ]_vars

\* upper-case "O" pressed in Armed resolved e1 (tagged "o") and e2 (tagged
\* "O") as the group
C14_Witness ==
    /\ IsKeyDown(ev) /\ ev.key = "O"
    /\ preState = "Armed"
    /\ pendingGroup # NULL
    /\ heap[pendingGroup] = <<"e1", "e2">>
    /\ attr["e1"] = <<"o">>
    /\ attr["e2"] = <<"O">>

\* the steps of a trigger and the clear in a task's effects, in the order
\* they happened
TriggerSteps(f) ==
    SelectSeq(f, LAMBDA x :
                     x.op \in {"focus", "throw", "keydown", "keyup", "reset"})

\* C15: in a task that triggers an element el, the effects are, in this
\* order: focus on el, a synthesized Enter key-down on el, a synthesized
\* Enter key-up on el, and only then the clear (resetMnemonics), after which
\* the session is Idle with no live hint; nothing is dispatched or cleared
\* in a task whose focus call raised.
C15_TriggerOrder ==
    /\ (\E i \in DOMAIN fx : fx[i].op = "focus") =>
           /\ \E el \in Elements :
                  TriggerSteps(fx) = TriggerOf(el) \o <<Fx("reset", "-")>>
           /\ SessionState = "Idle"
           /\ Live(labels) = <<>>
    /\ (\E i \in DOMAIN fx : fx[i].op = "throw") =>
           \E el \in Elements : TriggerSteps(fx) = <<Fx("throw", el)>>

\* digit "2" in Disambiguating: focus, key-down, key-up on e2, then the
\* clear, and the session is Idle
C15_Witness ==
    /\ IsKeyDown(ev) /\ ev.key = "2"
    /\ preState = "Disambiguating"
    /\ fx = <<Fx("focus", "e2"), Fx("keydown", "e2"), Fx("keyup", "e2"),
              Fx("reset", "-")>>
    /\ SessionState = "Idle"

\* the keys a hint of the model can stand for
HintKeys == {"o", "s"}

\* a hint text that is the uppercased key alone
Plain(t) == \E k \in HintKeys : t = ToUpperCase(k)

\* a hint text that is the uppercased key followed by an ordinal
Numbered(t) ==
    \E k \in HintKeys, i \in 1..9 : t = ToUpperCase(k) \o ToString(i)

\* the key a hint text stands for
KeyOfText(t) ==
    CHOOSE k \in HintKeys :
        \/ t = ToUpperCase(k)
        \/ \E i \in 1..9 : t = ToUpperCase(k) \o ToString(i)

\* the live hints of key k, in document order
LiveOfKey(ls, k) == SelectSeq(LiveTexts(ls), LAMBDA t : KeyOfText(t) = k)

EndsDisambiguation(e) ==
    \/ IsCancel(e)
    \/ e.type = "keydown" /\ IsDigit19(e.key)

\* the elements a task moved the focus to
Focused(f) ==
    LET c == SelectSeq(f, LAMBDA x : x.op = "focus")
    IN  {c[i].el : i \in DOMAIN c}

\* C17: while Disambiguating, a key event other than a digit, the cancel
\* key or the release of the modifier leaves the session Disambiguating
\* with the same group and the same live hints, and triggers no element;
\* in particular a letter key neither replaces the group nor triggers an
\* element.
C17_DisambiguatingIgnoresLetters ==
    [][ (/\ pendingGroup # NULL
         /\ ev'.type \in {"keydown", "keyup"}
         /\ ~EndsDisambiguation(ev')) =>
            /\ pendingGroup' # NULL
            /\ heap'[pendingGroup'] = heap[pendingGroup]
            /\ Live(labels') = Live(labels)
            /\ Focused(fx') = {} ]_vars

\* some hint is exiting
SomeExiting == \E i \in DOMAIN labels : Exiting(labels[i])

\* a step that is not the end of an exit animation removes no hint and
\* leaves the progress of the hints already exiting as it is, also when it
\* marks them again
KeepsExiting ==
    /\ Len(labels') >= Len(labels)
    /\ \A i \in DOMAIN labels :
           /\ labels'[i].text = labels[i].text
           /\ labels'[i].el = labels[i].el
           /\ Exiting(labels[i]) => labels'[i].fadeOut = labels[i].fadeOut

\* the end of the oldest exit animations removes exactly their hints
RemovesEnded ==
    /\ \E i \in DOMAIN labels : labels[i].fadeOut = 1
    /\ LET left == SelectSeq(labels, LAMBDA l : l.fadeOut # 1)
       IN  /\ Len(labels') = Len(left)
           /\ \A i \in DOMAIN left :
                  /\ labels'[i].text = left[i].text
                  /\ labels'[i].el = left[i].el
                  /\ Exiting(labels'[i]) = Exiting(left[i])

\* C18: a hint marked exiting stays in the document until its exit
\* animation ends and is removed then, marking it again does not set its
\* exit back, and some exit animation is running whenever a hint is
\* exiting; with every exit animation ending at last, exiting hints always
\* lead to the end of an animation that removes the oldest of them, and
\* when the session rests in Idle the document ends up without any hint.
C18_ExitingHintsRemoved ==
    /\ [][ /\ IF ev'.type = "animationend" THEN RemovesEnded
                                           ELSE KeepsExiting
           /\ SomeExiting' => \E i \in DOMAIN labels' : labels'[i].fadeOut = 1
         ]_vars
    /\ SomeExiting ~> (ev.type = "animationend")
    /\ <>[](SessionState = "Idle") => <>[](labels = <<>>)

\* hints were shown, the session went back to Idle, and the end of the
\* last exit animation left the document without any hint
C18_Witness ==
    /\ ev.type = "animationend"
    /\ preState = "Idle"
    /\ SessionState = "Idle"
    /\ styleInjected
    /\ labels = <<>>

\* the focus calls of a task that went through
FocusCalls(f) == SelectSeq(f, LAMBDA x : x.op = "focus")

\* C19: in Idle a letter or digit key leaves the session Idle, triggers
\* nothing, creates no hint and does not prevent the key's default
\* handling; every key event triggers at most one element, and an element
\* is triggered only by a letter key in Armed or by a digit key in
\* Disambiguating.
C19_TriggerOnlyWhileModifierHeld ==
    [][ /\ (SessionState = "Idle" /\ IsKeyDown(ev')
                                  /\ ev'.key \in SingleChar) =>
               /\ SessionState' = "Idle"
               /\ fx' = <<>>
               /\ labels' = labels
        /\ Len(FocusCalls(fx')) <= 1
        /\ FocusCalls(fx') # <<>> =>
               /\ IsKeyDown(ev')
               /\ \/ SessionState = "Armed" /\ ev'.key \in SingleChar
                  \/ SessionState = "Disambiguating" /\ IsDigit19(ev'.key)
      ]_vars

\* how often op is in a task's effects
Count(f, op) == Len(SelectSeq(f, LAMBDA x : x.op = op))

\* C20: the listeners run for the synthesized Enter key-down and key-up in
\* the middle of a letter or digit handler (modifier held, a group pending
\* or not) return the session as they found it: no state change, no
\* trigger, no render, no prevented default; so a task that triggers an
\* element focuses one element once, dispatches one key-down and one
\* key-up, and clears once, after them.
C20_NestedEnterInert ==
    /\ SessionState # "Idle" =>
           /\ KeyDownHandler(Start, "Enter", TRUE) = Start
           /\ KeyUpHandler(Start, "Enter") = Start
    /\ FocusCalls(fx) # <<>> =>
           /\ Count(fx, "focus") = 1
           /\ Count(fx, "keydown") = 1
           /\ Count(fx, "keyup") = 1
           /\ Count(fx, "reset") = 1
           /\ Count(fx, "preventDefaultNested") = 0
           /\ fx[Len(fx)] = Fx("reset", "-")
           /\ Live(labels) = <<>>

\* a letter in Armed triggered e1, an element of the document, so both
\* synthesized events reached the listeners during the task
C20_Witness ==
    /\ IsKeyDown(ev) /\ ev.key = "o"
    /\ preState = "Armed"
    /\ "e1" \in Range(dom)
    /\ fx = <<Fx("preventDefault", "-"), Fx("focus", "e1"),
              Fx("keydown", "e1"), Fx("keyup", "e1"), Fx("reset", "-")>>
    /\ SessionState = "Idle"

====
